---- MODULE Spec2Model ----
(***************************************************************************)
(* Model of the HTTP forwarding core of server.mjs: the URL validator      *)
(* (isValidUrl), the retrying fetcher (makeRequest), the header filter     *)
(* (sensitiveHeaders), the response dispatch of GET /proxy/:encodedUrl.    *)
(*                                                                         *)
(* JavaScript strings are TLA+ strings, and the string functions the code  *)
(* uses (toLowerCase, startsWith, includes, split, decodeURIComponent, the *)
(* URL parser) are computed character by character.  A handler runs to     *)
(* completion between two awaits (single-threaded event loop), so each     *)
(* action is the code from one suspension point to the next.               *)
(***************************************************************************)
EXTENDS Integers, Sequences, FiniteSets, TLC

\* ------------------------------------------------------------------ bounds
\* config.maxRetries ranges over 0..MaxRetriesBound.
MaxRetriesBound == 1

\* The requests in flight at the same time.  Every request has its own closure
\* (retries, isApi, targetUrl); two requests are what an interference between
\* requests needs.
Reqs == {"r1", "r2"}

\* ---------------------------------------------------------------- strings
\* The string functions are written without deep recursion: positions are
\* found by comprehension and results are assembled by halving.
UpperChars == "ABCDEFGHIJKLMNOPQRSTUVWXYZ"
LowerChars == "abcdefghijklmnopqrstuvwxyz"
DigitChars == "0123456789"

\* s.charAt(i - 1)
CharAt(s, i) == SubSeq(s, i, i)

\* s.substring(i - 1)
From(s, i) == IF i > Len(s) THEN "" ELSE SubSeq(s, i, Len(s))

\* The positions of s at which needle occurs.
Positions(s, needle) ==
  {i \in 1..(Len(s) - Len(needle) + 1) : SubSeq(s, i, i + Len(needle) - 1) = needle}

\* The least and the greatest of a non-empty set of numbers.
Min(set) == CHOOSE i \in set : \A j \in set : i <= j
Max(set) == CHOOSE i \in set : \A j \in set : i >= j

\* s.indexOf(needle) + 1: the first position of needle in s, 0 if there is none.
IndexOf(s, needle) ==
  IF Positions(s, needle) = {} THEN 0 ELSE Min(Positions(s, needle))

\* s.lastIndexOf(needle) + 1
LastIndexOf(s, needle) ==
  IF Positions(s, needle) = {} THEN 0 ELSE Max(Positions(s, needle))

\* String.prototype.includes
Includes(s, needle) == Positions(s, needle) # {}

\* String.prototype.startsWith
StartsWith(s, prefix) ==
  /\ Len(prefix) <= Len(s)
  /\ SubSeq(s, 1, Len(prefix)) = prefix

\* Whether every character of s is one of chars.
AllIn(s, chars) == \A i \in 1..Len(s) : Includes(chars, CharAt(s, i))

RECURSIVE Concat(_, _, _)
\* pieces[lo] + ... + pieces[hi]
Concat(pieces, lo, hi) ==
  IF lo > hi THEN ""
  ELSE IF lo = hi THEN pieces[lo]
  ELSE Concat(pieces, lo, (lo + hi) \div 2) \o Concat(pieces, ((lo + hi) \div 2) + 1, hi)

\* String.prototype.toLowerCase, one character.
ToLowerChar(c) ==
  IF Includes(UpperChars, c) THEN CharAt(LowerChars, IndexOf(UpperChars, c)) ELSE c

\* String.prototype.toLowerCase
ToLowerCase(s) == Concat([i \in 1..Len(s) |-> ToLowerChar(CharAt(s, i))], 1, Len(s))

\* String.prototype.split with a separator of one character.
Split(s, sep) ==
  LET at == Positions(s, sep)
      n == Cardinality(at)
      \* the position of the k-th separator; 0 before the first, Len(s) + 1
      \* after the last
      nth(k) == IF k = 0 THEN 0
                ELSE IF k > n THEN Len(s) + 1
                ELSE CHOOSE q \in at : Cardinality({o \in at : o < q}) = k - 1
  IN [k \in 1..(n + 1) |-> SubSeq(s, nth(k - 1) + 1, nth(k) - 1)]

\* Array.prototype.includes
ListIncludes(list, s) == \E i \in 1..Len(list) : list[i] = s

\* The first position in s of one of the characters of stops, Len(s) + 1 if
\* there is none.
FirstOf(s, stops) ==
  LET at == {i \in 1..Len(s) : Includes(stops, CharAt(s, i))}
  IN IF at = {} THEN Len(s) + 1 ELSE Min(at)

\* ------------------------------------------------------ decodeURIComponent
HexChars == "0123456789abcdef"
OctalChars == "01234567"

\* The printable ASCII characters, in the order of their codes 32..126 (the
\* grave accent, code 96, cannot be written in a string of this language: "'"
\* stands at its place).
AsciiChars ==
  " !\"#$%&'()*+,-./0123456789:;<=>?@ABCDEFGHIJKLMNOPQRSTUVWXYZ[\\]^_'abcdefghijklmnopqrstuvwxyz{|}~"

RECURSIVE Num(_, _)
\* The value of the digit string s in the radix Len(digits).
Num(s, digits) ==
  IF s = "" THEN 0
  ELSE Num(SubSeq(s, 1, Len(s) - 1), digits) * Len(digits)
       + (IndexOf(digits, CharAt(s, Len(s))) - 1)

\* Whether an escape "%XX" stands at position i of s, and the byte it denotes.
IsEscape(s, i) ==
  /\ i >= 1 /\ i + 2 <= Len(s)
  /\ CharAt(s, i) = "%"
  /\ AllIn(ToLowerCase(SubSeq(s, i + 1, i + 2)), HexChars)
EscapeByte(s, i) == Num(ToLowerCase(SubSeq(s, i + 1, i + 2)), HexChars)

\* The number of continuation bytes a UTF-8 lead byte announces, -1 if the byte
\* cannot start a sequence.
Continuations(byte) ==
  IF byte < 128 THEN 0
  ELSE IF byte >= 194 /\ byte <= 223 THEN 1
  ELSE IF byte >= 224 /\ byte <= 239 THEN 2
  ELSE IF byte >= 240 /\ byte <= 244 THEN 3
  ELSE -1

\* Whether the escape at position i is a continuation byte (0x80..0xBF).
IsContinuation(s, i) ==
  IsEscape(s, i) /\ EscapeByte(s, i) >= 128 /\ EscapeByte(s, i) <= 191

\* Whether a well-formed sequence starts at position i: a lead byte followed
\* by the continuation bytes it announces.
StartsSequence(s, i) ==
  /\ IsEscape(s, i)
  /\ Continuations(EscapeByte(s, i)) >= 0
  /\ \A k \in 1..Continuations(EscapeByte(s, i)) : IsContinuation(s, i + 3 * k)

\* Whether the continuation byte at position i belongs to a sequence.
InSequence(s, i) ==
  \E k \in 1..3 :
    /\ StartsSequence(s, i - 3 * k)
    /\ Continuations(EscapeByte(s, i - 3 * k)) >= k

\* A character outside ASCII, once decoded, is written "_".
DecodedChar(byte) ==
  IF byte >= 32 /\ byte <= 126 THEN CharAt(AsciiChars, byte - 31) ELSE "_"

\* decodeURIComponent(s): [ok, value]; ok = FALSE is the URIError thrown on a
\* "%" that starts no well-formed escape sequence.
decodeURIComponent(s) ==
  LET percents == Positions(s, "%")
      ok == \A i \in percents :
              IF IsContinuation(s, i) THEN InSequence(s, i) ELSE StartsSequence(s, i)
      piece(i) ==
        IF i \in percents
          THEN (IF IsContinuation(s, i) THEN "" ELSE DecodedChar(EscapeByte(s, i)))
        ELSE IF (i - 1) \in percents \/ (i - 2) \in percents THEN ""
        ELSE CharAt(s, i)
  IN IF ok THEN [ok |-> TRUE, value |-> Concat([i \in 1..Len(s) |-> piece(i)], 1, Len(s))]
     ELSE [ok |-> FALSE, value |-> ""]

\* Characters encodeURIComponent leaves as they are.
UnreservedChars == UpperChars \o LowerChars \o DigitChars \o "-_.!~*'()"
UpperHexChars == "0123456789ABCDEF"

\* The escape "%XX" of a printable ASCII character.
EscapeOf(c) ==
  LET code == IndexOf(AsciiChars, c) + 31 IN
  "%" \o CharAt(UpperHexChars, (code \div 16) + 1) \o CharAt(UpperHexChars, (code % 16) + 1)

\* encodeURIComponent(s), for printable ASCII.
encodeURIComponent(s) ==
  Concat([i \in 1..Len(s) |->
            IF Includes(UnreservedChars, CharAt(s, i)) THEN CharAt(s, i)
            ELSE EscapeOf(CharAt(s, i))], 1, Len(s))

\* -------------------------------------------------------------- new URL()
\* The parser of the WHATWG URL standard, for what isValidUrl reads of its
\* result: protocol and hostname.  Not modelled: percent-decoding and IDNA
\* mapping of a domain, and the compression of an IPv6 address.
URLFailure == [ok |-> FALSE, protocol |-> "", hostname |-> ""]

SchemeChars == LowerChars \o DigitChars \o "+-."
SpecialSchemes == {"http", "https", "ftp", "ws", "wss", "file"}
ForbiddenHostChars == " <>[]^|%"

\* The slashes and backslashes a special scheme lets precede the authority.
SkipSlashes(s) ==
  LET other == {i \in 1..Len(s) : CharAt(s, i) \notin {"/", "\\"}}
  IN IF other = {} THEN "" ELSE From(s, Min(other))

\* One part of a dotted IPv4 address (hexadecimal after 0x, octal after 0,
\* decimal otherwise), -1 if it is not a number.  q is the part in lower case.
IPv4NumberOf(part, q) ==
  IF part = "" THEN -1
  ELSE IF StartsWith(q, "0x")
    THEN (IF AllIn(From(q, 3), HexChars) THEN Num(From(q, 3), HexChars) ELSE -1)
  ELSE IF Len(part) > 1 /\ CharAt(part, 1) = "0"
    THEN (IF AllIn(From(part, 2), OctalChars) THEN Num(From(part, 2), OctalChars) ELSE -1)
  ELSE IF AllIn(part, DigitChars) THEN Num(part, DigitChars) ELSE -1
IPv4Number(part) == IPv4NumberOf(part, ToLowerCase(part))

\* The parts of a host between dots, without the empty part a final dot leaves.
WithoutLastEmpty(parts) ==
  IF Len(parts) > 1 /\ parts[Len(parts)] = ""
    THEN SubSeq(parts, 1, Len(parts) - 1) ELSE parts
HostParts(host) == WithoutLastEmpty(Split(host, "."))

\* "ends in a number": the host is to be parsed as an IPv4 address.
LastIsNumber(parts) == IPv4Number(parts[Len(parts)]) >= 0
EndsInNumber(host) == LastIsNumber(HostParts(host))

RECURSIVE Pow256(_)
Pow256(k) == IF k = 0 THEN 1 ELSE 256 * Pow256(k - 1)

\* The IPv4 serializer: the dotted decimal form of the address whose parts are
\* the n numbers num, "" if they are no address.
IPv4Byte(num, n, k) ==  \* the k-th byte of the address, k in 1..4
  IF k < n THEN num[k] ELSE (num[n] \div Pow256(4 - k)) % 256
IPv4Serialize(num, n) ==
  IF n > 4 \/ \E i \in 1..n : num[i] < 0 THEN ""
  ELSE IF \E i \in 1..(n - 1) : num[i] > 255 THEN ""
  ELSE IF n > 1 /\ num[n] >= Pow256(5 - n) THEN ""
  ELSE Concat([k \in 1..7 |-> IF k % 2 = 0 THEN "."
                              ELSE ToString(IPv4Byte(num, n, (k + 1) \div 2))], 1, 7)

\* The IPv4 parser.
IPv4Numbers(parts) == [i \in 1..Len(parts) |-> IPv4Number(parts[i])]
IPv4FromParts(parts) == IPv4Serialize(IPv4Numbers(parts), Len(parts))
IPv4Canonical(host) == IPv4FromParts(HostParts(host))

\* The host parser for a special scheme: "" on failure.  An IPv6 literal keeps
\* its brackets.  lower is the host in lower case.
HostParseOf(host, lower) ==
  IF StartsWith(host, "[")
    THEN (IF CharAt(host, Len(host)) = "]" THEN lower ELSE "")
  ELSE IF \E i \in 1..Len(host) : Includes(ForbiddenHostChars, CharAt(host, i)) THEN ""
  ELSE IF host = "" THEN ""
  ELSE IF EndsInNumber(lower) THEN IPv4Canonical(lower)
  ELSE lower
HostParse(host) == HostParseOf(host, ToLowerCase(host))

\* The host text of an authority: after the credentials, before the port.
HostOfHostport(hostport) ==
  IF StartsWith(hostport, "[")
    THEN (IF Includes(hostport, "]")
            THEN SubSeq(hostport, 1, IndexOf(hostport, "]")) ELSE hostport)
    ELSE SubSeq(hostport, 1, FirstOf(hostport, ":") - 1)
Hostport(authority) == From(authority, LastIndexOf(authority, "@") + 1)
AuthorityHost(authority) == HostOfHostport(Hostport(authority))

\* The port text of an authority ("" if none).
PortOfHostport(hostport) == From(hostport, Len(HostOfHostport(hostport)) + 2)
AuthorityPort(authority) == PortOfHostport(Hostport(authority))

\* The authority at the start of s: up to the first of / \ ? #.
Authority(s) == SubSeq(s, 1, FirstOf(s, "/\\?#") - 1)

\* The result for a special scheme other than file, from the parsed host and
\* the port text.
SpecialResult(scheme, hostname, port) ==
  IF hostname = "" \/ ~AllIn(port, DigitChars)
    THEN URLFailure
    ELSE [ok |-> TRUE, protocol |-> scheme \o ":", hostname |-> hostname]
SpecialURL(scheme, authority) ==
  SpecialResult(scheme, HostParse(AuthorityHost(authority)), AuthorityPort(authority))

\* The result for file and for the schemes that are not special.
OtherURL(scheme, rest) ==
  [ok |-> TRUE, protocol |-> scheme \o ":",
   hostname |-> IF ~StartsWith(rest, "//") THEN ""
                ELSE IF scheme = "file" THEN HostParse(AuthorityHost(Authority(From(rest, 3))))
                ELSE AuthorityHost(Authority(From(rest, 3)))]

\* The URL with the scheme (in lower case) before its first colon and rest
\* after it.
SchemeURL(scheme, rest) ==
  IF ~(Includes(LowerChars, CharAt(scheme, 1)) /\ AllIn(scheme, SchemeChars))
    THEN URLFailure
  ELSE IF scheme \in SpecialSchemes /\ scheme # "file"
    THEN SpecialURL(scheme, Authority(SkipSlashes(rest)))
  ELSE OtherURL(scheme, rest)
URLAtColon(urlString, colon) ==
  IF colon <= 1 THEN URLFailure
  ELSE SchemeURL(ToLowerCase(SubSeq(urlString, 1, colon - 1)), From(urlString, colon + 1))

\* new URL(urlString), without a base.
URLParse(urlString) == URLAtColon(urlString, IndexOf(urlString, ":"))

\* ---------------------------------------------------------- URL validator
\* const allowedProtocols = ['http:', 'https:'];
allowedProtocols == <<"http:", "https:">>

\* (process.env.BLOCKED_HOSTS || 'localhost,127.0.0.1,0.0.0.0,::1').split(','),
\* BLOCKED_HOSTS unset.
blockedHostnames == Split("localhost,127.0.0.1,0.0.0.0,::1", ",")

\* (process.env.BLOCKED_IP_PREFIXES || '192.168.,10.,172.').split(','),
\* BLOCKED_IP_PREFIXES unset.
blockedPrefixes == Split("192.168.,10.,172.", ",")

\* if (blockedHostnames.includes(parsed.hostname)) return false;
HostnameBlocked(hostname) == ListIncludes(blockedHostnames, hostname)

\* The checks of isValidUrl on the parsed URL; a URL that does not parse
\* throws, and the catch block returns false.
AllowsParsed(parsed) ==
  IF ~parsed.ok THEN FALSE
  ELSE IF ~ListIncludes(allowedProtocols, parsed.protocol) THEN FALSE
  ELSE IF HostnameBlocked(parsed.hostname) THEN FALSE
  ELSE IF \E i \in 1..Len(blockedPrefixes) :
            StartsWith(parsed.hostname, blockedPrefixes[i]) THEN FALSE
  ELSE TRUE

\* function isValidUrl(urlString)
isValidUrl(urlString) == AllowsParsed(URLParse(urlString))

\* --------------------------------------------------------- header filter
\* The default of FILTERED_HEADERS.
DefaultFilteredHeaders ==
  "content-security-policy,cookie,set-cookie,x-frame-options,access-control-allow-origin"

\* The values of process.env.FILTERED_HEADERS considered: unset (""), and a
\* list written with capital letters.
FilteredHeadersEnv == {"", "Set-Cookie,X-Frame-Options"}

\* const sensitiveHeaders = (process.env.FILTERED_HEADERS || '...').split(',');
sensitiveHeadersOf(env) ==
  Split(IF env = "" THEN DefaultFilteredHeaders ELSE env, ",")

\* A header map is a function from header names to values.
NoHeaders == [n \in {} |-> ""]

\* response.headers of axios on Node: http.IncomingMessage.headers holds every
\* header of the wire under its lower-cased name.
IncomingHeaders(wire) ==
  [n \in {ToLowerCase(k) : k \in DOMAIN wire} |->
     wire[CHOOSE k \in DOMAIN wire : ToLowerCase(k) = n]]

\* sensitiveHeaders.forEach(header => delete headers[header]);
DeleteSensitive(headers, list) ==
  [n \in (DOMAIN headers \ {list[i] : i \in 1..Len(list)}) |-> headers[n]]

\* --------------------------------------------------------------- upstream
\* What the upstream origin can answer on one attempt.  A 2xx answer resolves
\* the axios promise; any other status, a network error and a timeout reject it.
WireJson ==
  ("Content-Type" :> "application/json") @@ ("Set-Cookie" :> "sid=1") @@
  ("X-Frame-Options" :> "DENY")
WireVideo ==
  ("content-type" :> "video/mp4") @@ ("set-cookie" :> "sid=2") @@
  ("Content-Range" :> "bytes 0-9/100")

UpstreamSuccess ==
  {[status |-> 200, headers |-> WireJson],
   [status |-> 206, headers |-> WireVideo]}

\* The rejections of axios: error.response is absent on a transport failure or
\* a timeout, and present, with the upstream status and body, on a non-2xx
\* answer (validateStatus keeps its default).
TransportError == [response |-> FALSE, status |-> 0, data |-> ""]
UpstreamErrors ==
  {TransportError,
   [response |-> TRUE, status |-> 404, data |-> "not found"],
   [response |-> TRUE, status |-> 503, data |-> ""]}

\* The request paths considered: what follows "/proxy/" in the request line.
ProxyPaths ==
  {"http://example.com/video.mp4",
   "https:/example.com/api.php/provide/vod",
   "https%3A%2F%2Fexample.com%2Fapi.php%2Fprovide%2Fvod%2F%3Fac%3Dlist",
   "http%3A%2F%2F127.0.0.1%2Fx",
   "http://LOCALHOST:8080/x",
   "https://0.0.0.0/",
   "http://127.1/",
   "ftp://example.com/f",
   "ftp://127.0.0.1/f",
   "file:///etc/passwd",
   "http://192.168.1.1/",
   "https://10.0.0.5/api.php/provide/vod",
   "http://172.16.0.1/",
   "http://[::1]/x",
   "example.com/x",
   "%E0%A4%A"}

\* The values of req.headers.accept considered; "" is an absent header.
Accepts == {"", "text/html,application/json"}

\* ------------------------------------------------------------ aggregation
\* js/config.js: the site registry and the path templates of the operations.
API_SITES ==
  [heimuer |-> [api |-> "https://json.heimuer.xyz"],
   ffzy |-> [api |-> "http://ffzy5.tv"]]
API_CONFIG ==
  [search |-> [path |-> "/api.php/provide/vod/?ac=videolist&wd=",
               accept |-> "application/json"],
   detail |-> [path |-> "/api.php/provide/vod/?ac=videolist&ids=",
               accept |-> "application/json"]]

\* The query strings of /api/search and /api/detail considered: param is wd or
\* id; "" is an absent parameter.
Query(op, param, source, customApi) ==
  [op |-> op, param |-> param, source |-> source, customApi |-> customApi]
AggQueries ==
  {Query("search", "test", "", ""),
   Query("search", "a b", "ffzy", ""),
   Query("search", "test", "ffzy", "https://custom.example"),
   Query("search", "test", "", "http://127.0.0.1"),
   Query("detail", "a b", "nosuch", ""),
   Query("detail", "42", "ffzy", ""),
   Query("detail", "42", "ffzy", "https://custom.example"),
   Query("detail", "42", "", "http://localhost:8080"),
   Query("search", "test", "constructor", ""),
   Query("detail", "42", "", "http://[::1]:8080")}
NoQuery == Query("", "", "", "")

\* The properties every object inherits from Object.prototype: API_SITES[name]
\* is truthy for them, and its property api is undefined.
InheritedProperties ==
  {"constructor", "toString", "valueOf", "hasOwnProperty", "isPrototypeOf",
   "propertyIsEnumerable", "toLocaleString", "__proto__"}

\* `${API_SITES[source].api}` for a source with a truthy API_SITES[source].
SiteApi(source) ==
  IF source \in DOMAIN API_SITES THEN API_SITES[source].api ELSE "undefined"

\* The base of the upstream URL: customApi, else the registry entry of source
\* (source && API_SITES[source]), else the entry heimuer.
ApiBase(q) ==
  IF q.customApi # "" THEN q.customApi
  ELSE IF q.source # "" /\ q.source \in (DOMAIN API_SITES \cup InheritedProperties)
    THEN SiteApi(q.source)
  ELSE API_SITES.heimuer.api

\* apiUrl of /api/search (wd is encoded) and of /api/detail (id is not).
ComposeUrl(q) ==
  IF q.op = "search"
    THEN ApiBase(q) \o API_CONFIG.search.path \o encodeURIComponent(q.param)
    ELSE ApiBase(q) \o API_CONFIG.detail.path \o q.param

\* const proxyUrl = `/proxy/${encodeURIComponent(apiUrl)}`: the path segment
\* of the loopback call, which reaches the proxy route as req.params.encodedUrl.
LoopbackEncodedUrl(apiUrl) == encodeURIComponent(apiUrl)

ApiUrlTable == [q \in AggQueries |-> ComposeUrl(q)]
LoopbackTable == [q \in AggQueries |-> LoopbackEncodedUrl(ApiUrlTable[q])]

\* .replace(/(https?:)\/([^/])/, '$1//$2'): the first "http:/" or "https:/"
\* that a character other than "/" follows gets its second slash back.
SchemeSlashAt(path, i) ==
  IF StartsWith(From(path, i), "http:/") THEN i + 5
  ELSE IF StartsWith(From(path, i), "https:/") THEN i + 6
  ELSE 0
RepairScheme(path) ==
  LET starts == {i \in 1..Len(path) :
                   /\ SchemeSlashAt(path, i) # 0
                   /\ SchemeSlashAt(path, i) < Len(path)
                   /\ CharAt(path, SchemeSlashAt(path, i) + 1) # "/"}
      slash == SchemeSlashAt(path, Min(starts))
  IN IF starts = {} THEN path
     ELSE SubSeq(path, 1, slash) \o "/" \o From(path, slash + 1)

\* app.use('/proxy', ...): req.url as the middleware leaves it, for the path
\* that follows "/proxy/".
RewriteUrl(path) == "/" \o encodeURIComponent(RepairScheme(path))

\* req.params.encodedUrl: the router decodes the segment that :encodedUrl matches.
RouteParam(url) == decodeURIComponent(From(url, 2)).value

\* The functions of the request's strings, computed once for the values above.
AllPaths == ProxyPaths \cup {LoopbackTable[q] : q \in AggQueries}
ParamTable == [p \in AllPaths |-> RouteParam(RewriteUrl(p))]
AllEncodedUrls == {ParamTable[p] : p \in AllPaths}
DecodeTable == [e \in AllEncodedUrls |-> decodeURIComponent(e)]
TargetUrls == {DecodeTable[e].value : e \in {d \in AllEncodedUrls : DecodeTable[d].ok}}
ValidTable == [u \in TargetUrls |-> isValidUrl(u)]

\* ------------------------------------------------------------------ state
VARIABLES
  maxRetries,        \* config.maxRetries
  filteredHeaders,   \* process.env.FILTERED_HEADERS ("" when unset)
  pc,                \* per request: "idle", "fetching" (awaiting axios), "done"
  targetUrl,         \* per request: the decoded target URL
  accept,            \* per request: req.headers.accept
  isApi,             \* per request: the closure's isApi
  retries,           \* per request: the closure's retries
  attempts,          \* per request: number of upstream calls issued so far
  respAt,            \* per request: the attempt that first obtained an upstream
                     \*   response (any status), 0 if none has
  response,          \* per request: <<[attempt, status, headers]>> once makeRequest
                     \*   has returned the upstream answer of that attempt, else <<>>
  fault,             \* per request: <<e>> once makeRequest has thrown e, else <<>>
  res,               \* per request: the response written to the client
  agg                \* per request: the aggregation route that delegates to it

vars == <<maxRetries, filteredHeaders, pc, targetUrl, accept, isApi, retries,
          attempts, respAt, response, fault, res, agg>>

\* The variables of the proxy route.
proxyVars ==
  <<pc, targetUrl, accept, isApi, retries, attempts, respAt, response, fault, res>>

\* An Express response nothing has been written to.
NoResponse == [writes |-> 0, status |-> 0, headers |-> NoHeaders, body |-> ""]

\* res.status(status), res.set(headers) and one of res.send, res.json and
\* stream.pipe(res): the first one fixes what the client sees, and every one is
\* counted.
Send(resp, status, headers, body) ==
  IF resp.writes = 0
    THEN [writes |-> 1, status |-> status, headers |-> headers, body |-> body]
    ELSE [resp EXCEPT !.writes = @ + 1]

\* The response of an aggregation route: res.json(data) or the envelope
\* { code, msg, error }.
NoAggResponse ==
  [writes |-> 0, status |-> 0, kind |-> "", code |-> 0, msg |-> "", error |-> ""]
SendData(resp) ==
  IF resp.writes = 0
    THEN [writes |-> 1, status |-> 200, kind |-> "data", code |-> 0, msg |-> "",
          error |-> ""]
    ELSE [resp EXCEPT !.writes = @ + 1]
SendEnvelope(resp, op, message) ==
  IF resp.writes = 0
    THEN [writes |-> 1, status |-> 500, kind |-> "envelope", code |-> 500,
          msg |-> IF op = "search" THEN "search aggregation failed"
                  ELSE "detail API failed",
          error |-> message]
    ELSE [resp EXCEPT !.writes = @ + 1]

\* No aggregation route delegates to the request.
NoAgg == [pc |-> "none", query |-> NoQuery, apiUrl |-> "", res |-> NoAggResponse]

Init ==
  /\ agg = [r \in Reqs |-> NoAgg]
  /\ maxRetries \in 0..MaxRetriesBound
  /\ filteredHeaders \in FilteredHeadersEnv
  /\ pc = [r \in Reqs |-> "idle"]
  /\ targetUrl = [r \in Reqs |-> ""]
  /\ accept = [r \in Reqs |-> ""]
  /\ isApi = [r \in Reqs |-> FALSE]
  /\ retries = [r \in Reqs |-> 0]
  /\ attempts = [r \in Reqs |-> 0]
  /\ respAt = [r \in Reqs |-> 0]
  /\ response = [r \in Reqs |-> <<>>]
  /\ fault = [r \in Reqs |-> <<>>]
  /\ res = [r \in Reqs |-> NoResponse]

\* A mode test that looks at the target URL only and ignores the Accept header.
IsApiRequestByUrl(url, acc) == Includes(url, "/api.php/provide/vod")

\* const isApi = targetUrl.includes('/api.php/provide/vod')
\*            || req.headers.accept?.includes('application/json');
IsApiRequest(url, acc) ==
  Includes(url, "/api.php/provide/vod") \/ Includes(acc, "application/json")
IsApiTable ==
  [u \in TargetUrls |-> [a \in Accepts \cup {"application/json"} |-> IsApiRequest(u, a)]]

\* The catch block of the route: the status for a thrown error.
ErrorStatus(error) ==
  IF error.response
    THEN (IF error.status = 0 THEN 500 ELSE error.status)
    ELSE 500

\* The catch block of the route: the body for a thrown error.  With
\* responseType 'stream' the data of error.response is a stream (it has pipe).
ErrorBody(error, api) ==
  IF error.response
    THEN IF ~api THEN "upstream error stream"
         ELSE IF error.data # "" THEN error.data
         ELSE "proxy request failed"
    ELSE "request failed: message"

\* The status of the client response on the success path: the route never
\* calls res.status there, so it is the statusCode Express starts with.
SuccessStatus(upstream) == 200

\* const headers = { ...response.headers }; and the deletions, computed once for
\* every configuration and upstream answer.
RelayedHeaders(upstream, env) ==
  DeleteSensitive(IncomingHeaders(upstream.headers), sensitiveHeadersOf(env))
RelayedTable ==
  [env \in FilteredHeadersEnv |-> [up \in UpstreamSuccess |-> RelayedHeaders(up, env)]]

\* The success path from the resolved axios response to the client.
SuccessResponse(resp, upstream, api, env) ==
  Send(resp, SuccessStatus(upstream), RelayedTable[env][upstream],
       IF api THEN "json" ELSE "stream")

\* A guard that lets every URL through, as the route would without the
\* validation of the target.
RejectsUrlNever(url) == FALSE

\* if (!isValidUrl(targetUrl)): the test that guards the fetch.
RejectsUrl(url) == ~ValidTable[url]

\* The handler without the return of "return res.status(400).send(...)": the
\* rejection is written and the route goes on to fetch the target.
ProxyHandlerNoReturn(r, path, acc) ==
  LET encodedUrl == ParamTable[path]
      decoded == DecodeTable[encodedUrl]
      url == decoded.value
  IN
  /\ pc[r] = "idle"
  /\ accept' = [accept EXCEPT ![r] = acc]
  /\ IF ~decoded.ok
       THEN /\ res' = [res EXCEPT ![r] =
                         Send(@, ErrorStatus(TransportError), NoHeaders,
                              ErrorBody(TransportError, FALSE))]
            /\ pc' = [pc EXCEPT ![r] = "done"]
            /\ UNCHANGED <<targetUrl, isApi, attempts>>
       ELSE /\ targetUrl' = [targetUrl EXCEPT ![r] = url]
            /\ res' = [res EXCEPT ![r] =
                         IF RejectsUrl(url) THEN Send(@, 400, NoHeaders, "invalid URL")
                         ELSE @]
            /\ isApi' = [isApi EXCEPT ![r] = IsApiTable[url][acc]]
            /\ attempts' = [attempts EXCEPT ![r] = 1]
            /\ pc' = [pc EXCEPT ![r] = "fetching"]
  /\ UNCHANGED <<maxRetries, filteredHeaders, retries, respAt, response, fault>>

\* GET /proxy/:encodedUrl, from the arrival of the request to the first await:
\* the middleware of /proxy, decodeURIComponent (which throws on a malformed
\* escape, to the catch block of the route), the validation, and the first call
\* of makeRequest.  path is what follows "/proxy/" in the request line and acc
\* is req.headers.accept.
ProxyHandler(r, path, acc) ==
  LET encodedUrl == ParamTable[path]
      decoded == DecodeTable[encodedUrl]
      url == decoded.value
  IN
  /\ pc[r] = "idle"
  /\ accept' = [accept EXCEPT ![r] = acc]
  /\ IF ~decoded.ok
       THEN /\ res' = [res EXCEPT ![r] =
                         Send(@, ErrorStatus(TransportError), NoHeaders,
                              ErrorBody(TransportError, FALSE))]
            /\ pc' = [pc EXCEPT ![r] = "done"]
            /\ UNCHANGED <<targetUrl, isApi, attempts>>
       ELSE /\ targetUrl' = [targetUrl EXCEPT ![r] = url]
            /\ IF RejectsUrl(url)
                 THEN /\ res' = [res EXCEPT ![r] = Send(@, 400, NoHeaders, "invalid URL")]
                      /\ pc' = [pc EXCEPT ![r] = "done"]
                      /\ UNCHANGED <<isApi, attempts>>
                 ELSE /\ isApi' = [isApi EXCEPT ![r] = IsApiTable[url][acc]]
                      /\ attempts' = [attempts EXCEPT ![r] = 1]
                      /\ pc' = [pc EXCEPT ![r] = "fetching"]
                      /\ UNCHANGED res
  /\ UNCHANGED <<maxRetries, filteredHeaders, retries, respAt, response, fault>>

\* A client requests GET /proxy/:encodedUrl.
ProxyRequest(r, path, acc) ==
  /\ agg[r].pc = "none"
  /\ ProxyHandler(r, path, acc)
  /\ UNCHANGED agg

\* A fetcher that does not stop at a success: while retries remain it issues
\* another attempt after the resolved one.
AttemptSucceedsAndRetries(r, upstream) ==
  /\ pc[r] = "fetching"
  /\ respAt' = [respAt EXCEPT ![r] = IF @ = 0 THEN attempts[r] ELSE @]
  /\ response' = [response EXCEPT ![r] =
                    <<[attempt |-> attempts[r], status |-> upstream.status,
                       headers |-> upstream.headers]>>]
  /\ IF retries[r] < maxRetries
       THEN /\ retries' = [retries EXCEPT ![r] = @ + 1]
            /\ attempts' = [attempts EXCEPT ![r] = @ + 1]
            /\ UNCHANGED <<pc, res>>
       ELSE /\ res' = [res EXCEPT ![r] =
                         SuccessResponse(@, upstream, isApi[r], filteredHeaders)]
            /\ pc' = [pc EXCEPT ![r] = "done"]
            /\ UNCHANGED <<retries, attempts>>
  /\ UNCHANGED <<maxRetries, filteredHeaders, targetUrl, accept, isApi, fault, agg>>

\* The awaited axios call resolves (a 2xx answer): makeRequest returns it and the
\* route relays it.
AttemptSucceeds(r, upstream) ==
  /\ pc[r] = "fetching"
  /\ respAt' = [respAt EXCEPT ![r] = IF @ = 0 THEN attempts[r] ELSE @]
  /\ response' = [response EXCEPT ![r] =
                    <<[attempt |-> attempts[r], status |-> upstream.status,
                       headers |-> upstream.headers]>>]
  /\ res' = [res EXCEPT ![r] = SuccessResponse(@, upstream, isApi[r], filteredHeaders)]
  /\ pc' = [pc EXCEPT ![r] = "done"]
  /\ UNCHANGED <<maxRetries, filteredHeaders, targetUrl, accept, isApi, retries,
                 attempts, fault, agg>>

\* The retry test with <= in place of <: one retry more than configured.
MayRetryOffByOne(count, limit, error) == count <= limit

\* if (retries < maxRetries): the test of the catch block of makeRequest.
MayRetry(count, limit, error) == count < limit

\* The route without its catch block: the error thrown by makeRequest ends the
\* handler and nothing is written to the client.
AttemptFailsUnhandled(r, error) ==
  /\ pc[r] = "fetching"
  /\ respAt' = [respAt EXCEPT ![r] = IF error.response /\ @ = 0 THEN attempts[r] ELSE @]
  /\ IF MayRetry(retries[r], maxRetries, error)
       THEN /\ retries' = [retries EXCEPT ![r] = @ + 1]
            /\ attempts' = [attempts EXCEPT ![r] = @ + 1]
            /\ UNCHANGED <<pc, fault>>
       ELSE /\ fault' = [fault EXCEPT ![r] = <<error>>]
            /\ pc' = [pc EXCEPT ![r] = "done"]
            /\ UNCHANGED <<retries, attempts>>
  /\ UNCHANGED <<maxRetries, filteredHeaders, targetUrl, accept, isApi, response,
                 res, agg>>

\* A fetcher whose retry counter is one variable of the module, shared by the
\* requests in flight, instead of a variable of the closure of each request.
AttemptFailsSharedCounter(r, error) ==
  LET count == Max({retries[s] : s \in Reqs}) IN
  /\ pc[r] = "fetching"
  /\ respAt' = [respAt EXCEPT ![r] = IF error.response /\ @ = 0 THEN attempts[r] ELSE @]
  /\ IF MayRetry(count, maxRetries, error)
       THEN /\ retries' = [s \in Reqs |-> count + 1]
            /\ attempts' = [attempts EXCEPT ![r] = @ + 1]
            /\ UNCHANGED <<pc, fault, res>>
       ELSE /\ fault' = [fault EXCEPT ![r] = <<error>>]
            /\ res' = [res EXCEPT ![r] =
                         Send(@, ErrorStatus(error), NoHeaders, ErrorBody(error, isApi[r]))]
            /\ pc' = [pc EXCEPT ![r] = "done"]
            /\ UNCHANGED <<retries, attempts>>
  /\ UNCHANGED <<maxRetries, filteredHeaders, targetUrl, accept, isApi, response, agg>>

\* The awaited axios call rejects: the catch block of makeRequest retries, or
\* throws the error to the catch block of the route.
AttemptFails(r, error) ==
  /\ pc[r] = "fetching"
  /\ respAt' = [respAt EXCEPT ![r] = IF error.response /\ @ = 0 THEN attempts[r] ELSE @]
  /\ IF MayRetry(retries[r], maxRetries, error)
       THEN /\ retries' = [retries EXCEPT ![r] = @ + 1]
            /\ attempts' = [attempts EXCEPT ![r] = @ + 1]
            /\ UNCHANGED <<pc, fault, res>>
       ELSE /\ fault' = [fault EXCEPT ![r] = <<error>>]
            /\ res' = [res EXCEPT ![r] =
                         Send(@, ErrorStatus(error), NoHeaders, ErrorBody(error, isApi[r]))]
            /\ pc' = [pc EXCEPT ![r] = "done"]
            /\ UNCHANGED <<retries, attempts>>
  /\ UNCHANGED <<maxRetries, filteredHeaders, targetUrl, accept, isApi, response, agg>>

\* GET /api/search and GET /api/detail, from the arrival of the request to the
\* await of the loopback call axios.get(`http://localhost:${config.port}${proxyUrl}`).
AggRequest(r, q) ==
  /\ pc[r] = "idle"
  /\ agg[r].pc = "none"
  /\ agg' = [agg EXCEPT ![r] =
               [pc |-> "waiting", query |-> q, apiUrl |-> ApiUrlTable[q],
                res |-> NoAggResponse]]
  /\ UNCHANGED <<maxRetries, filteredHeaders, proxyVars>>

\* The loopback call reaches the proxy route, with the headers of API_CONFIG.
LoopbackArrives(r) ==
  /\ agg[r].pc = "waiting"
  /\ ProxyHandler(r, LoopbackTable[agg[r].query], API_CONFIG[agg[r].query.op].accept)
  /\ UNCHANGED agg

\* An aggregation route whose loopback call resolves on every status
\* (validateStatus: () => true): the answer of the proxy route is passed on
\* with its own status.
LoopbackRespondsRelays(r) ==
  /\ agg[r].pc = "waiting"
  /\ pc[r] = "done"
  /\ agg' = [agg EXCEPT ![r].pc = "done",
                        ![r].res = [writes |-> 1, status |-> res[r].status,
                                    kind |-> "data", code |-> 0, msg |-> "",
                                    error |-> ""]]
  /\ UNCHANGED <<maxRetries, filteredHeaders, proxyVars>>

\* The response of the proxy route reaches the awaiting aggregation route:
\* axios resolves on a 2xx status and rejects on any other.
LoopbackResponds(r) ==
  /\ agg[r].pc = "waiting"
  /\ pc[r] = "done"
  /\ agg' = [agg EXCEPT ![r].pc = "done",
                        ![r].res =
                          IF res[r].status >= 200 /\ res[r].status < 300
                            THEN SendData(@)
                            ELSE SendEnvelope(@, agg[r].query.op,
                                   "Request failed with status code "
                                     \o ToString(res[r].status))]
  /\ UNCHANGED <<maxRetries, filteredHeaders, proxyVars>>

\* The loopback call runs into its timeout (config.timeout, the timeout of one
\* upstream attempt as well) while the proxy route still awaits the upstream.
LoopbackTimeout(r) ==
  /\ agg[r].pc = "waiting"
  /\ pc[r] = "fetching"
  /\ agg' = [agg EXCEPT ![r].pc = "done",
                        ![r].res = SendEnvelope(@, agg[r].query.op,
                                                "timeout of 5000ms exceeded")]
  /\ UNCHANGED <<maxRetries, filteredHeaders, proxyVars>>

Next ==
  \/ \E r \in Reqs, path \in ProxyPaths, acc \in Accepts :
       ProxyRequest(r, path, acc)
  \/ \E r \in Reqs, upstream \in UpstreamSuccess : AttemptSucceeds(r, upstream)
  \/ \E r \in Reqs, error \in UpstreamErrors : AttemptFails(r, error)
  \/ \E r \in Reqs, q \in AggQueries : AggRequest(r, q)
  \/ \E r \in Reqs : LoopbackArrives(r)
  \/ \E r \in Reqs : LoopbackResponds(r)
  \/ \E r \in Reqs : LoopbackTimeout(r)

Spec == Init /\ [][Next]_vars

\* The awaited upstream call of a request settles: axios resolves, rejects, or
\* runs into config.timeout.
AttemptResolves(r) ==
  \/ \E upstream \in UpstreamSuccess : AttemptSucceeds(r, upstream)
  \/ \E error \in UpstreamErrors : AttemptFails(r, error)

\* Every awaited call settles: each upstream attempt is bounded by
\* config.timeout, and the server accepts and answers its own loopback calls.
FairSpec ==
  /\ Spec
  /\ \A r \in Reqs : WF_vars(AttemptResolves(r))
  /\ \A r \in Reqs : WF_vars(LoopbackArrives(r))
  /\ \A r \in Reqs : WF_vars(LoopbackResponds(r))

\* ------------------------------------------------------------- properties

\* The request reached the validation: decodeURIComponent returned its target.
Validated(r) == targetUrl[r] # ""

\* An attempt of the request before its successful one (or any attempt, when
\* none succeeded) obtained an upstream response with a non-2xx status.
StatusFaultObtained(r) ==
  /\ respAt[r] # 0
  /\ response[r] = <<>> \/ respAt[r] < response[r][1].attempt

\* The upstream answer that makeRequest returned for the request.
Returned(r) == [status |-> response[r][1].status, headers |-> response[r][1].headers]

\* C1: a /proxy request whose target URL fails the validation (it does not
\* parse, its scheme is not http or https, its hostname is denied or starts
\* with a denied prefix) is answered with status 400, and no upstream attempt
\* and no retry is ever made for it.
C1_RejectedTargetGets400 ==
  \A r \in Reqs :
    (Validated(r) /\ ~ValidTable[targetUrl[r]]) =>
      /\ pc[r] = "done"
      /\ res[r].writes = 1
      /\ res[r].status = 400
      /\ attempts[r] = 0
      /\ retries[r] = 0
      /\ respAt[r] = 0

\* The scenario of C1: the target http://127.0.0.1/x was rejected with 400.
C1_Witness ==
  \E r \in Reqs :
    /\ targetUrl[r] = "http://127.0.0.1/x"
    /\ pc[r] = "done"
    /\ res[r].status = 400
    /\ attempts[r] = 0

\* C2: when every attempt of a request fails in transport (no attempt obtains
\* an upstream response), the fault is surfaced after exactly maxRetries + 1
\* attempts: not before, and no attempt is made beyond that number.
C2_TransportFailuresExhaustRetries ==
  \A r \in Reqs :
    (respAt[r] = 0 /\ response[r] = <<>>) =>
      /\ attempts[r] <= maxRetries + 1
      /\ fault[r] # <<>> => attempts[r] = maxRetries + 1
      /\ (pc[r] = "done" /\ attempts[r] >= 1) => fault[r] # <<>>

\* The case of C2 with a retry: all the attempts failed in transport and the
\* fault was surfaced after the last one.
C2_Witness ==
  \E r \in Reqs :
    /\ maxRetries = MaxRetriesBound
    /\ respAt[r] = 0
    /\ fault[r] = <<TransportError>>
    /\ attempts[r] = maxRetries + 1
    /\ res[r].status = 500

\* C3: once attempt k of a request has succeeded (k <= maxRetries + 1), the
\* route relays the answer of that attempt, and attempt k stays the last
\* attempt of the request: no fault is raised and nothing is fetched after it.
C3_SuccessIsReturnedAndFinal ==
  \A r \in Reqs :
    response[r] # <<>> =>
      /\ response[r][1].attempt = attempts[r]
      /\ attempts[r] <= maxRetries + 1
      /\ attempts[r] = retries[r] + 1
      /\ pc[r] = "done"
      /\ fault[r] = <<>>
      /\ res[r].writes = 1
      /\ res[r].body \in {"json", "stream"}
      /\ res[r].headers = RelayedTable[filteredHeaders][Returned(r)]

\* The case of C3 with k = 2: the first attempt failed, the second succeeded
\* and was relayed.
C3_Witness ==
  \E r \in Reqs :
    /\ response[r] # <<>>
    /\ response[r][1].attempt = 2
    /\ attempts[r] = 2
    /\ pc[r] = "done"
    /\ res[r].body \in {"json", "stream"}

\* C4: on a successful stream-mode fetch the status of the client response is
\* the status of the upstream (206 for 206), and the relayed headers hold no
\* set-cookie header.
C4_StreamSuccessKeepsStatus ==
  \A r \in Reqs :
    (response[r] # <<>> /\ ~isApi[r]) =>
      /\ res[r].status = response[r][1].status
      /\ "set-cookie" \notin DOMAIN res[r].headers

\* C5: every proxy request and every aggregation request writes exactly one
\* response to its client: never a second one, and a finished request has
\* written one, on the success, validation, status-fault and transport-fault
\* paths alike.
C5_ExactlyOneResponse ==
  \A r \in Reqs :
    /\ res[r].writes <= 1
    /\ agg[r].res.writes <= 1
    /\ pc[r] = "done" <=> res[r].writes = 1
    /\ agg[r].pc = "done" <=> agg[r].res.writes = 1

\* The case of C5 on two paths at once: an aggregation request was answered
\* with the envelope after its proxy request had surfaced a fault, each with
\* one response.
C5_Witness ==
  \E r \in Reqs :
    /\ agg[r].pc = "done"
    /\ agg[r].res.writes = 1
    /\ agg[r].res.kind = "envelope"
    /\ fault[r] # <<>>
    /\ res[r].writes = 1

\* C6: every accepted request eventually has a response: a /proxy request that
\* arrived is eventually answered, and so is every /api/search and /api/detail
\* request, provided that each awaited call eventually settles.
C6_EveryRequestIsAnswered ==
  \A r \in Reqs :
    /\ (pc[r] # "idle") ~> (res[r].writes >= 1)
    /\ (agg[r].pc # "none") ~> (agg[r].res.writes >= 1)

\* The case of C6 that needs every retry: a request answered only after its
\* last attempt failed, and an aggregation request answered with data.
C6_Witness ==
  /\ \E r \in Reqs :
       /\ fault[r] # <<>>
       /\ retries[r] = MaxRetriesBound
       /\ res[r].writes = 1
  /\ \E r \in Reqs :
       /\ agg[r].pc = "done"
       /\ agg[r].res.kind = "data"

\* C7: when the upstream has answered a /proxy request with a non-2xx status,
\* the client receives that upstream status with the upstream body, and never
\* a 500 made up by the proxy or another status.
C7_StatusFaultIsRelayed ==
  \A r \in Reqs :
    (pc[r] = "done" /\ StatusFaultObtained(r)) =>
      /\ fault[r] # <<>>
      /\ fault[r][1].response
      /\ res[r].status = fault[r][1].status
      /\ res[r].body = ErrorBody(fault[r][1], isApi[r])

\* C8: the fault surfaced after the retries carries an upstream status iff
\* some attempt of the request obtained an upstream response; it is the
\* generic failure only when no attempt did.
C8_FaultCarriesObtainedStatus ==
  \A r \in Reqs :
    fault[r] # <<>> => (fault[r][1].response <=> respAt[r] # 0)

\* The header map that C9 describes: the incoming headers without those whose
\* name equals an entry of the list when letter case is ignored.
SanitizedIgnoringCase(upstream, env) ==
  LET incoming == IncomingHeaders(upstream.headers)
      list == sensitiveHeadersOf(env)
      denied == {ToLowerCase(list[i]) : i \in DOMAIN list}
      kept == {n \in DOMAIN incoming : ToLowerCase(n) \notin denied}
  IN [n \in kept |-> incoming[n]]
SanitizedIgnoringCaseTable ==
  [env \in FilteredHeadersEnv |->
     [up \in UpstreamSuccess |-> SanitizedIgnoringCase(up, env)]]

\* C9: the headers relayed to the client are the upstream headers without
\* every header whose name equals an entry of the configured list, letter case
\* ignored, whatever the list; every other header is kept with its value.
C9_SanitizeIgnoresCase ==
  \A r \in Reqs :
    response[r] # <<>> =>
      res[r].headers = SanitizedIgnoringCaseTable[filteredHeaders][Returned(r)]

\* The host that a parsed hostname denotes: an IPv6 literal without the square
\* brackets of its URL form.
HostOfHostname(hostname) ==
  IF Len(hostname) >= 2 /\ StartsWith(hostname, "[")
    THEN SubSeq(hostname, 2, Len(hostname) - 1)
    ELSE hostname

\* The validation that C10 describes.
ValidAsDescribed(urlString) ==
  LET url == URLParse(urlString)
      host == HostOfHostname(url.hostname)
  IN /\ url.ok
     /\ url.protocol \in {"http:", "https:"}
     /\ host \notin {"localhost", "127.0.0.1", "0.0.0.0", "::1"}
     /\ ~\E prefix \in {"192.168.", "10.", "172."} : StartsWith(host, prefix)
ValidAsDescribedTable == [u \in TargetUrls |-> ValidAsDescribed(u)]

\* C10: the validation accepts a URL iff it parses as an absolute URL, its
\* scheme is http or https, its host is none of localhost, 127.0.0.1, 0.0.0.0
\* and ::1, and its host starts with none of 192.168., 10. and 172.; a URL
\* whose host is a denied entry is rejected.
C10_ValidationMatchesDescription ==
  \A r \in Reqs :
    Validated(r) =>
      (ValidTable[targetUrl[r]] <=> ValidAsDescribedTable[targetUrl[r]])

\* The message of the envelope of an operation.
EnvelopeMsg(op) == IF op = "search" THEN "search aggregation failed" ELSE "detail API failed"

\* C11: when the delegated call of /api/search or /api/detail fails (validation
\* rejection, upstream status fault, transport exhaustion, loopback timeout),
\* the route answers with the envelope {code: 500, msg, error} under status
\* 500; data is sent only for a delegated call that succeeded, and the status
\* and body of the delegated call are never passed on.
C11_FailureGivesEnvelope ==
  \A r \in Reqs :
    agg[r].pc = "done" =>
      /\ agg[r].res.kind \in {"data", "envelope"}
      /\ agg[r].res.kind = "data" =>
           /\ response[r] # <<>>
           /\ agg[r].res.status = 200
      /\ agg[r].res.kind = "envelope" =>
           /\ agg[r].res.status = 500
           /\ agg[r].res.code = 500
           /\ agg[r].res.msg = EnvelopeMsg(agg[r].query.op)
           /\ agg[r].res.error # ""
      /\ (pc[r] = "done" /\ response[r] = <<>>) => agg[r].res.kind = "envelope"

\* The case of C11 with a status fault: the proxy route relayed 404 to the
\* loopback call and the aggregation client got the envelope under 500.
C11_Witness ==
  \E r \in Reqs :
    /\ agg[r].pc = "done"
    /\ fault[r] # <<>>
    /\ res[r].status = 404
    /\ agg[r].res.kind = "envelope"
    /\ agg[r].res.status = 500

\* The URLs composed by the aggregation routes.
ApiUrls == {ApiUrlTable[q] : q \in AggQueries}
ApiUrlValidAsDescribed == [u \in ApiUrls |-> ValidAsDescribed(u)]

\* C12: the URL built by an aggregation request goes through the validator:
\* when its host is denied (localhost, 127.0.0.1, 0.0.0.0, ::1 or a denied
\* prefix), no upstream attempt is made for it and the aggregation client
\* receives the envelope.
C12_AggregationUrlIsValidated ==
  \A r \in Reqs :
    (agg[r].pc # "none" /\ ~ApiUrlValidAsDescribed[agg[r].apiUrl]) =>
      /\ attempts[r] = 0
      /\ agg[r].pc = "done" => agg[r].res.kind = "envelope"

\* C13: the retry counter belongs to the request: each request counts from
\* zero and gets its own maxRetries + 1 attempts, and a step that changes the
\* counter or the attempts of one request leaves those of every other request
\* as they are.
C13_RetryCounterIsPerRequest ==
  /\ [](\A r \in Reqs :
          /\ retries[r] <= maxRetries
          /\ attempts[r] >= 1 => attempts[r] = retries[r] + 1
          /\ attempts[r] = 0 => retries[r] = 0
          /\ fault[r] # <<>> => attempts[r] = maxRetries + 1)
  /\ [][\A r \in Reqs :
          (retries'[r] # retries[r] \/ attempts'[r] # attempts[r]) =>
            \A s \in Reqs \ {r} :
              retries'[s] = retries[s] /\ attempts'[s] = attempts[s]]_vars

\* The case of C13: two requests in flight each used up their own retries.
C13_Witness ==
  /\ maxRetries = MaxRetriesBound
  /\ \A r \in Reqs :
       /\ fault[r] # <<>>
       /\ retries[r] = maxRetries
       /\ attempts[r] = maxRetries + 1

\* The base that C14 describes: customApi if supplied, else the registry entry
\* of source if source is the name of a site, else the entry heimuer.
BaseAsDescribed(q) ==
  IF q.customApi # "" THEN q.customApi
  ELSE IF q.source \in {"heimuer", "ffzy"} THEN API_SITES[q.source].api
  ELSE API_SITES.heimuer.api
UrlsOnBaseAsDescribed ==
  [q \in AggQueries |->
     {u \in ApiUrls : StartsWith(u, BaseAsDescribed(q) \o API_CONFIG[q.op].path)}]

\* C14: the composed URL of an aggregation request starts with customApi if
\* supplied, else with the registry entry of source if source is a known site
\* name, else (source absent or unknown) with the default registry entry,
\* followed by the path template of the operation.
C14_BaseFollowsPriority ==
  \A r \in Reqs :
    agg[r].pc # "none" => agg[r].apiUrl \in UrlsOnBaseAsDescribed[agg[r].query]

\* The URL that C15 describes: the base, the path template of the operation
\* and the URL-encoded parameter.
UrlAsDescribed(q) == ApiBase(q) \o API_CONFIG[q.op].path \o encodeURIComponent(q.param)
UrlAsDescribedTable == [q \in AggQueries |-> UrlAsDescribed(q)]

\* C15: for search and for detail the composed upstream URL is the resolved
\* base, then the path template of the operation, then the URL-encoded
\* parameter (wd for search, id for detail).
C15_ComposedUrlEncodesParameter ==
  \A r \in Reqs :
    agg[r].pc # "none" => agg[r].apiUrl = UrlAsDescribedTable[agg[r].query]

\* The mode that C16 describes: json iff the target holds the API path marker
\* or the Accept header holds application/json.
JsonAsDescribed(url, acc) ==
  Includes(url, "/api.php/provide/vod") \/ Includes(acc, "application/json")
JsonAsDescribedTable ==
  [u \in TargetUrls |->
     [a \in Accepts \cup {"application/json"} |-> JsonAsDescribed(u, a)]]

\* C16: the mode of a proxy request is json iff its target URL holds the API
\* path marker or its Accept header holds application/json, and stream
\* otherwise; it is fixed when the request is accepted, no later step changes
\* it, and the dispatch of a success uses it.
C16_ModeIsFixedPerRequest ==
  /\ [](\A r \in Reqs :
          /\ attempts[r] >= 1 =>
               isApi[r] = JsonAsDescribedTable[targetUrl[r]][accept[r]]
          /\ response[r] # <<>> =>
               res[r].body = IF isApi[r] THEN "json" ELSE "stream")
  /\ [][\A r \in Reqs :
          pc[r] # "idle" =>
            /\ isApi'[r] = isApi[r]
            /\ accept'[r] = accept[r]
            /\ targetUrl'[r] = targetUrl[r]]_vars

\* The case of C16 where only the Accept header makes the mode json, and the
\* success dispatched is that of a retry.
C16_Witness ==
  \E r \in Reqs :
    /\ targetUrl[r] = "http://example.com/video.mp4"
    /\ accept[r] = "text/html,application/json"
    /\ isApi[r]
    /\ response[r] # <<>>
    /\ response[r][1].attempt = 2
    /\ res[r].body = "json"

\* C17: a retry follows a transport or timeout failure only: once an attempt
\* of a request has obtained an upstream response, of whatever status, that
\* attempt is the last attempt of the request.
C17_NoRetryAfterResponse ==
  \A r \in Reqs : respAt[r] # 0 => attempts[r] = respAt[r]

\* C18: an aggregation request has the outcome of its delegated proxy request:
\* when an attempt of the delegated fetch succeeds the aggregation client gets
\* the data and not the envelope, and no upstream attempt is pending once the
\* aggregation client has been answered.
C18_AggregationFollowsDelegate ==
  \A r \in Reqs :
    agg[r].pc = "done" =>
      /\ pc[r] = "done"
      /\ response[r] # <<>> => agg[r].res.kind = "data"

====
